---- MODULE Spec2Model ----
(***************************************************************************)
(* ChickSMS outbound relay: the SMS routes (send, retry, the Arduino-safe  *)
(* queue and its processor) and the MQTT service (publish, status and      *)
(* incoming-message handling).  JavaScript runs each handler atomically    *)
(* between two awaits; every await is a step boundary of this model.       *)
(* Time is in milliseconds and advances from one timer deadline to the     *)
(* next.                                                                   *)
(***************************************************************************)
EXTENDS Integers, Sequences, FiniteSets, Bags, TLC

\* ---------------------------------------------------------------- bounds
\* requests and events of a behaviour of Spec (all handlers)
MaxSubmits == 1
MaxRetryCalls == 1
MaxStatusEvents == 1
\* send requests of a behaviour of SpecQueue
QueueSubmits == 2
\* retry calls and status reports of a behaviour of SpecStore
StoreRetryCalls == 2
StoreStatusEvents == 2
\* send requests of a behaviour of SpecPaced
PacedSubmits == 2
\* send requests and retry calls of a behaviour of SpecTimed
TimedSubmits == 1
TimedRetryCalls == 1
\* bulk requests of a behaviour of SpecBulk
BulkCalls == 1
\* send requests and status reports of a behaviour of SpecTrip
TripSubmits == 1
TripEvents == 1
\* status reports of a behaviour of SpecCorrelate
CorrelateEvents == 2
\* send requests and sms/incoming messages of a behaviour of SpecInbox
InboxSubmits == 1
InboxArrivals == 1
\* send requests of a behaviour of SpecLink, SpecLive and SpecAcked
LinkSubmits == 1
\* send requests and status reports of a behaviour of SpecPair
PairSubmits == 2
PairEvents == 1
\* send requests of a behaviour of SpecProgress
ProgressSubmits == 1
\* send requests, retry calls, status reports and sms/incoming messages of a
\* behaviour of SpecOwner
OwnerSubmits == 1
OwnerRetryCalls == 1
OwnerEvents == 1
OwnerArrivals == 1

\* ------------------------------------------------------ program constants
DELAY_BETWEEN_MESSAGES == 45000
MAX_BULK_REQUEST == 1000
TickInterval == 5000
RequeueWait == 10000
PublishBackoff == 3000
maxAttempts == 3
RetryLimit == 3
maxReconnectAttempts == 5
\* mqttMessage truncates the text with substring(0, 140)
TruncateAt == 140

None == "null"
\* stopwatch readings are milliseconds, so the two marks are below zero
NoTime == 0 - 1
\* value of a stopwatch or history variable that a specification does not run
Off == 0 - 2
\* a step that sends no HTTP response, hands nothing to client.publish
NoResp == [op |-> "none", code |-> 0, body |-> ""]
NoPub == <<>>
NoResults == <<>>
NoStat == [queueSize |-> 0 - 1, isProcessing |-> FALSE, estimatedWaitTime |-> 0 - 1]
NoLog == "none"
NoBulk == [recipients |-> <<>>, message |-> 0, i |-> 0, results |-> <<>>]
Untracked == "untracked"

Min(a, b) == IF a <= b THEN a ELSE b

\* ------------------------------------------------- phone number validation
\* Request bodies the model submits, spelled out character by character.
Chars(p) ==
  CASE p = "+15550001" -> <<"+", "1", "5", "5", "5", "0", "0", "0", "1">>
    [] p = "(44) 20-71" -> <<"(", "4", "4", ")", " ", "2", "0", "-", "7", "1">>
    [] p = "not-a-number" -> <<"n", "o", "t", "-", "a", "-", "n", "u", "m", "b", "e", "r">>
    [] p = "0155" -> <<"0", "1", "5", "5">>
    [] p = "+7" -> <<"+", "7">>
    [] p = "1234567890123456" -> <<"1", "2", "3", "4", "5", "6", "7", "8", "9", "0", "1", "2", "3", "4", "5", "6">>
    [] p = "15+55" -> <<"1", "5", "+", "5", "5">>
    [] p = "" -> <<>>
    [] p = "52340" -> <<"5", "2", "3", "4", "0">>
    [] p = "soon" -> <<"s", "o", "o", "n">>
    [] p = "999999999999" -> <<"9", "9", "9", "9", "9", "9", "9", "9", "9", "9", "9", "9">>
    [] p = "1000000000000" -> <<"1", "0", "0", "0", "0", "0", "0", "0", "0", "0", "0", "0", "0">>
    [] p = "1793700000000" -> <<"1", "7", "9", "3", "7", "0", "0", "0", "0", "0", "0", "0", "0">>

PhoneInputs == {"+15550001", "(44) 20-71", "not-a-number", "0155", "+7",
                "1234567890123456", "15+55", ""}

Digits == {"0", "1", "2", "3", "4", "5", "6", "7", "8", "9"}

\* phoneNumber.replace(/[\s\-\(\)]/g, '')
IsSeparator(c) == c \in {" ", "-", "(", ")"}
StripSeparators(s) == SelectSeq(s, LAMBDA c : ~IsSeparator(c))

\* /^\+?[1-9]\d{1,14}$/.test(s)
phoneRegex_noAnchor(s) ==
  LET t == IF Len(s) > 0 /\ s[1] = "+" THEN Tail(s) ELSE s
  IN  /\ Len(t) >= 2
      /\ t[1] \in Digits \ {"0"}
      /\ t[2] \in Digits
phoneRegex(s) ==
  LET t == IF Len(s) > 0 /\ s[1] = "+" THEN Tail(s) ELSE s
  IN  /\ Len(t) >= 2
      /\ Len(t) <= 15
      /\ t[1] \in Digits \ {"0"}
      /\ \A i \in 2..Len(t) : t[i] \in Digits

\* the two checks of POST /send before anything is stored
SendValidation(p) ==
  IF Len(Chars(p)) = 0 THEN "Phone number and message are required"
  ELSE IF ~phoneRegex(StripSeparators(Chars(p))) THEN "Invalid phone number format"
  ELSE "ok"

VARIABLES
  records,            \* sms_logs table, in creation order (index = id)
  smsQueue,           \* let smsQueue = []
  isProcessingQueue,  \* let isProcessingQueue = false
  isConnected,        \* MqttService.isConnected
  pc,                 \* where processNextSMSInQueue is suspended
  smsItem,            \* the entry shifted by the running cycle
  attempt,            \* publish attempt counter of the running cycle
  retries,            \* bag of POST /retry handlers suspended at an await
  statusJobs,         \* bag of sms/status handlers between findFirst and update
  submitsLeft, retriesLeft, eventsLeft,   \* requests and events still to come
  requestNumbers,     \* phoneNumber fields of the send requests of this run
  requestTexts,       \* message fields of the requests of this run
  resp,               \* HTTP response sent by this step, or NoResp
  pub,                \* message handed to client.publish by this step, or NoPub
  tickIn,             \* ms until the setInterval callback fires next
  sleep,              \* ms left of the cycle's pending setTimeout, NoTime if none
  sinceDeq,           \* ms since the last shift of the queue (capped), NoTime if none
  sincePub,           \* ms since the last acknowledged publish (capped), NoTime if none
  deqGap,             \* sinceDeq as it was at the last shift
  pubGap,             \* sincePub as it was at the last client.publish
  lastExit,           \* how the previous cycle released isProcessingQueue
  enqLog,             \* ids in the order addToSMSQueue pushed them
  firstPub,           \* ids in the order of their first publish by the processor
  bulk,               \* the POST /bulk handler suspended at prisma.smsLog.create
  bulksLeft,          \* bulk requests still to come
  results,            \* results array of the bulk response sent by this step
  qstat,              \* value getQueueStatus() returned in this step, or NoStat
  log,                \* line the sms/status handler logged in this step
  reconnectAttempts,  \* MqttService.reconnectAttempts
  clientEnded,        \* client.end() has been called
  incoming,           \* incoming_sms table, in creation order
  arrivalsLeft        \* sms/incoming messages still to come

procVars == <<pc, smsItem, attempt>>
clockVars == <<tickIn, sleep, sinceDeq, sincePub>>
histVars == <<deqGap, pubGap, lastExit, enqLog, firstPub>>
budgetVars == <<submitsLeft, retriesLeft, eventsLeft, requestNumbers, requestTexts>>
vars == <<records, smsQueue, isProcessingQueue, isConnected, pc, smsItem,
          attempt, retries, statusJobs, submitsLeft, retriesLeft, eventsLeft,
          requestNumbers, requestTexts,
          resp, pub,
          tickIn, sleep, sinceDeq, sincePub, deqGap, pubGap, lastExit,
          enqLog, firstPub, bulk, bulksLeft, results, qstat, log,
          reconnectAttempts, clientEnded, incoming, arrivalsLeft>>
bulkVars == <<bulk, bulksLeft>>
serviceVars == <<reconnectAttempts, clientEnded, incoming, arrivalsLeft>>

NoItem == [phone |-> None, message |-> 0, smsId |-> 0]
RecordIds == 1..Len(records)

\* A row of sms_logs as prisma.smsLog.create leaves it.
NewRecord(p, m) ==
  [phoneNumber |-> p, message |-> m, status |-> "QUEUED", retryCount |-> 0,
   errorMsg |-> None, sentAt |-> FALSE]

\* A message text is modelled by its length in characters: a short text and
\* one a character longer than the processor's truncation.
OneText == {5}
TextInputs == {5, TruncateAt + 1}

\* The table holds rows of earlier runs when the module is loaded: one
\* long message that failed and was retried twice.
PriorRecords ==
  << [phoneNumber |-> "+15550001", message |-> TruncateAt + 1,
      status |-> "FAILED", retryCount |-> 2,
      errorMsg |-> "SMS delivery failed", sentAt |-> FALSE] >>

\* The table after a restart in the middle of the work: the queue of the
\* earlier process is gone, its rows are still QUEUED or PENDING.
StoredRecords ==
  PriorRecords \o
  << [phoneNumber |-> "+15550001", message |-> 5,
      status |-> "PENDING", retryCount |-> 0,
      errorMsg |-> None, sentAt |-> FALSE],
     [phoneNumber |-> "(44) 20-71", message |-> 5,
      status |-> "PENDING", retryCount |-> 1,
      errorMsg |-> None, sentAt |-> FALSE],
     [phoneNumber |-> "+15550001", message |-> 5,
      status |-> "QUEUED", retryCount |-> 0,
      errorMsg |-> None, sentAt |-> FALSE] >>

InitWith(submits, numbers, texts, retryCalls, events, deqWatch, pubWatch, exits, bulks, table, arrivals) ==
  /\ records = table
  /\ smsQueue = <<>>
  /\ isProcessingQueue = FALSE
  /\ isConnected = TRUE
  /\ pc = "idle"
  /\ smsItem = NoItem
  /\ attempt = 0
  /\ retries = EmptyBag
  /\ statusJobs = EmptyBag
  /\ submitsLeft = submits
  /\ requestNumbers = numbers
  /\ requestTexts = texts
  /\ retriesLeft = retryCalls
  /\ eventsLeft = events
  /\ resp = NoResp
  /\ pub = NoPub
  /\ tickIn = TickInterval
  /\ sleep = NoTime
  /\ sinceDeq = deqWatch
  /\ sincePub = pubWatch
  /\ deqGap = deqWatch
  /\ pubGap = pubWatch
  /\ lastExit = exits
  /\ enqLog = <<>>
  /\ firstPub = <<>>
  /\ bulk = NoBulk
  /\ bulksLeft = bulks
  /\ results = NoResults
  /\ qstat = NoStat
  /\ log = NoLog
  /\ reconnectAttempts = 0
  /\ clientEnded = FALSE
  /\ incoming = <<>>
  /\ arrivalsLeft = arrivals

OneNumber == {"+15550001"}

Init == InitWith(MaxSubmits, OneNumber \cup {"not-a-number"}, TextInputs, MaxRetryCalls,
                 MaxStatusEvents, Off, Off, Untracked, 0,
                 PriorRecords, 0)
InitQueue == InitWith(QueueSubmits, PhoneInputs, OneText, 0, 0, Off, Off, None, 0,
                      PriorRecords, 0)
InitStore == InitWith(0, {}, OneText, StoreRetryCalls, StoreStatusEvents, Off, Off, Untracked, 0,
                      PriorRecords, 0)
InitPaced == InitWith(PacedSubmits, OneNumber, OneText, 0, 0, NoTime, Off, None, 0,
                      PriorRecords, 0)
InitBulk == InitWith(0, {}, OneText, 0, 0, Off, Off, Untracked, BulkCalls,
                     PriorRecords, 0)
InitTrip == InitWith(TripSubmits, OneNumber, OneText, 0, TripEvents, Off, Off, Untracked, 0,
                     PriorRecords, 0)
InitCorrelate == InitWith(0, {}, OneText, 0, CorrelateEvents, Off, Off, Untracked, 0,
                          StoredRecords, 0)
InitLink == InitWith(LinkSubmits, OneNumber, OneText, 0, 0, Off, Off, Untracked, 0,
                     PriorRecords, 0)
InitInbox == InitWith(InboxSubmits, OneNumber, OneText, 0, 0, Off, Off, Untracked, 0,
                      PriorRecords, InboxArrivals)
InitOwner ==
  \/ InitWith(OwnerSubmits, OneNumber, OneText, OwnerRetryCalls, 0, Off, Off, Untracked, 0, PriorRecords, 0)
  \/ InitWith(OwnerSubmits, OneNumber, OneText, 0, OwnerEvents, Off, Off, Untracked, 0, PriorRecords, 0)
  \/ InitWith(OwnerSubmits, OneNumber, OneText, 0, 0, Off, Off, Untracked, 0, PriorRecords, OwnerArrivals)
InitProgress == InitWith(ProgressSubmits, OneNumber, OneText, 0, 0, Off, Off, Untracked, 0,
                         StoredRecords, 0)
InitPair == InitWith(PairSubmits, OneNumber, OneText, 0, PairEvents, Off, Off, Untracked, 0,
                     PriorRecords, 0)
InitTimed == InitWith(TimedSubmits, OneNumber, OneText, TimedRetryCalls, 0, Off, NoTime, Untracked, 0,
                      PriorRecords, 0)

\* ------------------------------------------------------------- helpers
Silent == results' = NoResults /\ qstat' = NoStat /\ log' = NoLog
Quiet == resp' = NoResp /\ pub' = NoPub /\ Silent

\* stopwatches and the exit record, when the specification runs them
Restart(c) == IF c = Off THEN Off ELSE 0
Exit(how) == IF lastExit = Untracked THEN Untracked ELSE how

SetFields(id, st, err) ==
  [records EXCEPT ![id].status = st, ![id].errorMsg = err]

\* text.substring(from, to) on a text of the given length
substring(len, from, to) == Min(len, to) - Min(len, from)

\* `${phone}|${message}` as handed to client.publish
MqttMessage(phone, text) == <<phone, "|", text>>

NoteFirstPub(id) ==
  IF \E i \in 1..Len(firstPub) : firstPub[i] = id THEN firstPub
  ELSE Append(firstPub, id)

\* smsQueue.unshift(smsItem)
Unshift_atTail(q, item) == Append(q, item)
Unshift(q, item) == <<item>> \o q

\* setTimeout(resolve, DELAY_BETWEEN_MESSAGES) after the publish loop
InterSendSleep_seconds == DELAY_BETWEEN_MESSAGES \div 1000
InterSendSleep == DELAY_BETWEEN_MESSAGES

\* ------------------------------------------------- the queue processor
\* One pass of the while loop body: attempt++, publishMessage(mqttMessage).
\* publishMessage returns false at once when the client is not connected;
\* otherwise the message goes to client.publish and the cycle waits for the
\* callback.
ProcAttempt(n) ==
  /\ attempt' = n
  /\ firstPub' = NoteFirstPub(smsItem.smsId)
  /\ resp' = NoResp
  /\ Silent
  /\ IF isConnected
       THEN /\ pc' = "publishing"
            /\ pub' = MqttMessage(smsItem.phone,
                                  substring(smsItem.message, 0, TruncateAt))
            /\ pubGap' = sincePub
            /\ sleep' = NoTime
       ELSE /\ pub' = NoPub
            /\ pubGap' = pubGap
            /\ IF n < maxAttempts
                 THEN pc' = "backoff" /\ sleep' = PublishBackoff
                 ELSE pc' = "failUpdate" /\ sleep' = NoTime

\* setInterval callback, guard fails: nothing happens.
TickIdle ==
  /\ tickIn = 0
  /\ isProcessingQueue \/ smsQueue = <<>>
  /\ tickIn' = TickInterval
  /\ Quiet
  /\ UNCHANGED <<records, smsQueue, isProcessingQueue, isConnected, procVars,
                 retries, statusJobs, budgetVars, sleep, sinceDeq, sincePub,
                 histVars, bulkVars, serviceVars>>

\* setInterval callback into processNextSMSInQueue up to its first await:
\* isProcessingQueue = true, smsItem = smsQueue.shift(), update issued.
TickDequeue_afterConfirmation ==
  /\ tickIn = 0
  /\ ~isProcessingQueue /\ smsQueue # <<>>
  /\ \A id \in RecordIds : records[id].status # "PENDING"
  /\ tickIn' = TickInterval
  /\ isProcessingQueue' = TRUE
  /\ smsItem' = Head(smsQueue)
  /\ smsQueue' = Tail(smsQueue)
  /\ pc' = "setPending"
  /\ attempt' = 0
  /\ deqGap' = sinceDeq
  /\ sinceDeq' = Restart(sinceDeq)
  /\ Quiet
  /\ UNCHANGED <<records, isConnected, retries, statusJobs, budgetVars, sleep,
                 sincePub, pubGap, lastExit, enqLog, firstPub, bulkVars,
                 serviceVars>>
TickDequeue_anytime ==
  /\ ~isProcessingQueue /\ smsQueue # <<>>
  /\ tickIn' = TickInterval
  /\ isProcessingQueue' = TRUE
  /\ smsItem' = Head(smsQueue)
  /\ smsQueue' = Tail(smsQueue)
  /\ pc' = "setPending"
  /\ attempt' = 0
  /\ deqGap' = sinceDeq
  /\ sinceDeq' = Restart(sinceDeq)
  /\ Quiet
  /\ UNCHANGED <<records, isConnected, retries, statusJobs, budgetVars, sleep,
                 sincePub, pubGap, lastExit, enqLog, firstPub, bulkVars,
                 serviceVars>>
TickDequeue_unguarded ==
  /\ tickIn = 0
  /\ smsQueue # <<>>
  /\ tickIn' = TickInterval
  /\ isProcessingQueue' = TRUE
  /\ smsItem' = Head(smsQueue)
  /\ smsQueue' = Tail(smsQueue)
  /\ pc' = "setPending"
  /\ attempt' = 0
  /\ deqGap' = sinceDeq
  /\ sinceDeq' = Restart(sinceDeq)
  /\ Quiet
  /\ UNCHANGED <<records, isConnected, retries, statusJobs, budgetVars, sleep,
                 sincePub, pubGap, lastExit, enqLog, firstPub, bulkVars, serviceVars>>
TickDequeue_peek ==
  /\ tickIn = 0
  /\ ~isProcessingQueue /\ smsQueue # <<>>
  /\ tickIn' = TickInterval
  /\ isProcessingQueue' = TRUE
  /\ smsItem' = Head(smsQueue)
  /\ pc' = "setPending"
  /\ attempt' = 0
  /\ deqGap' = sinceDeq
  /\ sinceDeq' = Restart(sinceDeq)
  /\ Quiet
  /\ UNCHANGED <<records, smsQueue, isConnected, retries, statusJobs,
                 budgetVars, sleep, sincePub, pubGap, lastExit, enqLog,
                 firstPub, bulkVars, serviceVars>>
TickDequeue ==
  /\ tickIn = 0
  /\ ~isProcessingQueue /\ smsQueue # <<>>
  /\ tickIn' = TickInterval
  /\ isProcessingQueue' = TRUE
  /\ smsItem' = Head(smsQueue)
  /\ smsQueue' = Tail(smsQueue)
  /\ pc' = "setPending"
  /\ attempt' = 0
  /\ deqGap' = sinceDeq
  /\ sinceDeq' = Restart(sinceDeq)
  /\ Quiet
  /\ UNCHANGED <<records, isConnected, retries, statusJobs, budgetVars, sleep,
                 sincePub, pubGap, lastExit, enqLog, firstPub, bulkVars, serviceVars>>

\* The PENDING update returns; connection check; not connected: put the
\* entry back and wait 10 s, otherwise first publish attempt.
SetPending ==
  /\ pc = "setPending"
  /\ records' = [records EXCEPT ![smsItem.smsId].status = "PENDING"]
  /\ IF ~isConnected
       THEN /\ smsQueue' = Unshift(smsQueue, smsItem)
            /\ sleep' = RequeueWait
            /\ pc' = "requeueWait"
            /\ Quiet
            /\ UNCHANGED <<attempt, pubGap, firstPub, bulkVars, serviceVars>>
       ELSE /\ ProcAttempt(1)
            /\ UNCHANGED smsQueue
  /\ UNCHANGED <<isProcessingQueue, isConnected, smsItem, retries, statusJobs,
                 budgetVars, tickIn, sinceDeq, sincePub, deqGap, lastExit,
                 enqLog, bulkVars, serviceVars>>

\* The PENDING update rejects (storage error): control goes to catch.
SetPendingThrows ==
  /\ pc = "setPending"
  /\ pc' = "catchUpdate"
  /\ Quiet
  /\ UNCHANGED <<records, smsQueue, isProcessingQueue, isConnected, smsItem,
                 attempt, retries, statusJobs, budgetVars, clockVars, histVars, bulkVars, serviceVars>>

\* client.publish calls back, with or without an error.
PublishResolve_oneMore ==
  /\ pc = "publishing"
  /\ \E success \in BOOLEAN :
       IF success
         THEN /\ pc' = "delay"
              /\ sleep' = InterSendSleep
              /\ sincePub' = Restart(sincePub)
         ELSE /\ sincePub' = sincePub
              /\ IF attempt < maxAttempts + 1
                   THEN pc' = "backoff" /\ sleep' = PublishBackoff
                   ELSE pc' = "failUpdate" /\ sleep' = NoTime
  /\ Quiet
  /\ UNCHANGED <<records, smsQueue, isProcessingQueue, isConnected, smsItem,
                 attempt, retries, statusJobs, budgetVars, tickIn, sinceDeq,
                 histVars, bulkVars, serviceVars>>
PublishResolve ==
  /\ pc = "publishing"
  /\ \E success \in BOOLEAN :
       IF success
         THEN /\ pc' = "delay"
              /\ sleep' = InterSendSleep
              /\ sincePub' = Restart(sincePub)
         ELSE /\ sincePub' = sincePub
              /\ IF attempt < maxAttempts
                   THEN pc' = "backoff" /\ sleep' = PublishBackoff
                   ELSE pc' = "failUpdate" /\ sleep' = NoTime
  /\ Quiet
  /\ UNCHANGED <<records, smsQueue, isProcessingQueue, isConnected, smsItem,
                 attempt, retries, statusJobs, budgetVars, tickIn, sinceDeq,
                 histVars, bulkVars, serviceVars>>

\* The 3 s wait between attempts is over: next pass of the loop.
BackoffExpire ==
  /\ pc = "backoff"
  /\ sleep = 0
  /\ ProcAttempt(attempt + 1)
  /\ UNCHANGED <<records, smsQueue, isProcessingQueue, isConnected, smsItem,
                 retries, statusJobs, budgetVars, tickIn, sinceDeq, sincePub,
                 deqGap, lastExit, enqLog, bulkVars, serviceVars>>

\* data of the update after the last failed attempt
ExhaustedWrite_countsRetry(id) ==
  [records EXCEPT ![id].status = "FAILED",
                  ![id].errorMsg = "Failed to send to Arduino after retries",
                  ![id].retryCount = @ + 1]
ExhaustedWrite(id) ==
  SetFields(id, "FAILED", "Failed to send to Arduino after retries")

\* All attempts failed: the FAILED update returns, then the safety delay.
FailUpdate_release ==
  /\ pc = "failUpdate"
  /\ records' = ExhaustedWrite(smsItem.smsId)
  /\ isProcessingQueue' = FALSE
  /\ pc' = "idle"
  /\ smsItem' = NoItem
  /\ attempt' = 0
  /\ sleep' = NoTime
  /\ lastExit' = Exit("delay")
  /\ Quiet
  /\ UNCHANGED <<smsQueue, isConnected, retries, statusJobs, budgetVars,
                 tickIn, sinceDeq, sincePub, deqGap, pubGap, enqLog, firstPub,
                 bulkVars, serviceVars>>
FailUpdate ==
  /\ pc = "failUpdate"
  /\ records' = ExhaustedWrite(smsItem.smsId)
  /\ pc' = "delay"
  /\ sleep' = InterSendSleep
  /\ Quiet
  /\ UNCHANGED <<smsQueue, isProcessingQueue, isConnected, smsItem, attempt,
                 retries, statusJobs, budgetVars, tickIn, sinceDeq, sincePub,
                 histVars, bulkVars, serviceVars>>

FailUpdateThrows ==
  /\ pc = "failUpdate"
  /\ pc' = "catchUpdate"
  /\ Quiet
  /\ UNCHANGED <<records, smsQueue, isProcessingQueue, isConnected, smsItem,
                 attempt, retries, statusJobs, budgetVars, clockVars, histVars, bulkVars, serviceVars>>

\* catch block: FAILED update (its own failure is only logged), finally.
CatchUpdate ==
  /\ pc = "catchUpdate"
  /\ \E stored \in BOOLEAN :
       records' = IF stored
                    THEN SetFields(smsItem.smsId, "FAILED", "Queue processing error")
                    ELSE records
  /\ isProcessingQueue' = FALSE
  /\ pc' = "idle"
  /\ smsItem' = NoItem
  /\ attempt' = 0
  /\ lastExit' = Exit("error")
  /\ Quiet
  /\ UNCHANGED <<smsQueue, isConnected, retries, statusJobs, budgetVars,
                 clockVars, deqGap, pubGap, enqLog, firstPub, bulkVars, serviceVars>>

\* The safety delay is over: finally { isProcessingQueue = false }.
DelayExpire_flagStays ==
  /\ pc = "delay"
  /\ sleep = 0
  /\ pc' = "idle"
  /\ smsItem' = NoItem
  /\ attempt' = 0
  /\ sleep' = NoTime
  /\ lastExit' = Exit("delay")
  /\ Quiet
  /\ UNCHANGED <<records, smsQueue, isProcessingQueue, isConnected, retries,
                 statusJobs, budgetVars, tickIn, sinceDeq, sincePub, deqGap,
                 pubGap, enqLog, firstPub, bulkVars, serviceVars>>
DelayExpire ==
  /\ pc = "delay"
  /\ sleep = 0
  /\ isProcessingQueue' = FALSE
  /\ pc' = "idle"
  /\ smsItem' = NoItem
  /\ attempt' = 0
  /\ sleep' = NoTime
  /\ lastExit' = Exit("delay")
  /\ Quiet
  /\ UNCHANGED <<records, smsQueue, isConnected, retries, statusJobs,
                 budgetVars, tickIn, sinceDeq, sincePub, deqGap, pubGap,
                 enqLog, firstPub, bulkVars, serviceVars>>

\* The 10 s wait of the not-connected branch is over.
RequeueExpire ==
  /\ pc = "requeueWait"
  /\ sleep = 0
  /\ isProcessingQueue' = FALSE
  /\ pc' = "idle"
  /\ smsItem' = NoItem
  /\ attempt' = 0
  /\ sleep' = NoTime
  /\ lastExit' = Exit("requeue")
  /\ Quiet
  /\ UNCHANGED <<records, smsQueue, isConnected, retries, statusJobs,
                 budgetVars, tickIn, sinceDeq, sincePub, deqGap, pubGap,
                 enqLog, firstPub, bulkVars, serviceVars>>

\* ---------------------------------------------------------------- time
Later(t, d) == IF t < 0 THEN t ELSE Min(t + d, DELAY_BETWEEN_MESSAGES)

\* Time passes up to the next timer deadline.
AdvanceTime ==
  /\ tickIn > 0
  /\ sleep # 0
  /\ LET d == IF sleep > 0 THEN Min(tickIn, sleep) ELSE tickIn
     IN  /\ tickIn' = tickIn - d
         /\ sleep' = IF sleep > 0 THEN sleep - d ELSE sleep
         /\ sinceDeq' = Later(sinceDeq, d)
         /\ sincePub' = Later(sincePub, d)
  /\ Quiet
  /\ UNCHANGED <<records, smsQueue, isProcessingQueue, isConnected, procVars,
                 retries, statusJobs, budgetVars, histVars, bulkVars, serviceVars>>

\* Time passes until one of the pending timers is due, whichever it is.
TimerDue ==
  /\ \/ tickIn > 0 /\ tickIn' = 0 /\ sleep' = sleep
     \/ sleep > 0 /\ sleep' = 0 /\ tickIn' = tickIn
  /\ Quiet
  /\ UNCHANGED <<records, smsQueue, isProcessingQueue, isConnected, procVars,
                 retries, statusJobs, budgetVars, sinceDeq, sincePub, histVars, bulkVars, serviceVars>>

\* ------------------------------------------------------- MQTT connection
\* client.on('connect')
OnConnect ==
  /\ ~isConnected
  /\ ~clientEnded
  /\ isConnected' = TRUE
  /\ reconnectAttempts' = 0
  /\ Quiet
  /\ UNCHANGED <<records, smsQueue, isProcessingQueue, procVars, retries,
                 statusJobs, budgetVars, clockVars, histVars, bulkVars,
                 clientEnded, incoming, arrivalsLeft>>

\* client.on('disconnect' | 'error' | 'offline')
OnDisconnect ==
  /\ isConnected
  /\ isConnected' = FALSE
  /\ Quiet
  /\ UNCHANGED <<records, smsQueue, isProcessingQueue, procVars, retries,
                 statusJobs, budgetVars, clockVars, histVars, bulkVars, serviceVars>>

\* client.on('reconnect'): the client starts a reconnect, which it does only
\* while it is off line and has not been ended.  At the fifth attempt in a
\* row the handler logs an error and calls client.end(), nothing else.
OnReconnect ==
  /\ ~isConnected
  /\ ~clientEnded
  /\ reconnectAttempts' = reconnectAttempts + 1
  /\ clientEnded' = (reconnectAttempts' >= maxReconnectAttempts)
  /\ resp' = NoResp /\ pub' = NoPub /\ results' = NoResults /\ qstat' = NoStat
  /\ log' = IF clientEnded' THEN "Max reconnection attempts reached" ELSE NoLog
  /\ UNCHANGED <<records, smsQueue, isProcessingQueue, isConnected, procVars,
                 retries, statusJobs, budgetVars, clockVars, histVars, bulkVars,
                 incoming, arrivalsLeft>>

\* ------------------------------------------------------------ POST /send
\* smsQueue.push({phone, message, smsId, addedAt}); the interval timer is
\* already running (started on module load), so nothing else happens.
addToSMSQueue_atHead(q, phone, message, smsId) ==
  <<[phone |-> phone, message |-> message, smsId |-> smsId]>> \o q
addToSMSQueue(q, phone, message, smsId) ==
  Append(q, [phone |-> phone, message |-> message, smsId |-> smsId])

\* getQueueStatus() on the queue and flag as they are when it is called;
\* estimatedWaitTime is in seconds.
getQueueStatus_millis(q, processing) ==
  [queueSize |-> Len(q), isProcessing |-> processing,
   estimatedWaitTime |-> Len(q) * DELAY_BETWEEN_MESSAGES]
getQueueStatus(q, processing) ==
  [queueSize |-> Len(q), isProcessing |-> processing,
   estimatedWaitTime |-> Len(q) * (DELAY_BETWEEN_MESSAGES \div 1000)]

\* Rejected before anything is stored.
SendReject(p) ==
  /\ p \in requestNumbers
  /\ SendValidation(p) # "ok"
  /\ resp' = [op |-> "send", code |-> 400, body |-> SendValidation(p)]
  /\ pub' = NoPub
  /\ Silent
  /\ UNCHANGED <<records, smsQueue, isProcessingQueue, isConnected, procVars,
                 retries, statusJobs, budgetVars, clockVars, histVars, bulkVars, serviceVars>>

\* prisma.smsLog.create returns (the row is written as the await ends),
\* addToSMSQueue, getQueueStatus, response.
SendAccept(p) ==
  /\ submitsLeft > 0
  /\ p \in requestNumbers
  /\ SendValidation(p) = "ok"
  /\ submitsLeft' = submitsLeft - 1
  /\ UNCHANGED <<requestNumbers, requestTexts>>
  /\ \E m \in requestTexts :
       /\ records' = Append(records, NewRecord(p, m))
       /\ smsQueue' = addToSMSQueue(smsQueue, p, m, Len(records) + 1)
  /\ enqLog' = Append(enqLog, Len(records) + 1)
  /\ resp' = [op |-> "send", code |-> 200, body |-> "QUEUED"]
  /\ pub' = NoPub
  /\ qstat' = getQueueStatus(smsQueue', isProcessingQueue)
  /\ results' = NoResults
  /\ log' = NoLog
  /\ UNCHANGED <<isProcessingQueue, isConnected, procVars, retries, statusJobs,
                 retriesLeft, eventsLeft, clockVars, deqGap, pubGap, lastExit,
                 firstPub, bulkVars, serviceVars>>

\* prisma.smsLog.create rejects (storage error): the route's catch answers.
SendError(p) ==
  /\ p \in requestNumbers
  /\ SendValidation(p) = "ok"
  /\ resp' = [op |-> "send", code |-> 500, body |-> "Internal server error"]
  /\ pub' = NoPub
  /\ Silent
  /\ UNCHANGED <<records, smsQueue, isProcessingQueue, isConnected, procVars,
                 retries, statusJobs, budgetVars, clockVars, histVars, bulkVars, serviceVars>>

\* ------------------------------------------------------------ POST /bulk
\* recipients arrays of the bulk requests: none, some valid and some not,
\* one more than the cap, and as many as the cap allows (none of them valid)
MixedBatch == <<"+15550001", "not-a-number", "(44) 20-71">>
InvalidFirstBatch == <<"0155", "+15550001">>
OversizeBatch == [k \in 1..(MAX_BULK_REQUEST + 1) |-> "+15550001"]
FullBatch == [k \in 1..MAX_BULK_REQUEST |-> "0155"]
BulkInputs == {<<>>, MixedBatch, InvalidFirstBatch, OversizeBatch, FullBatch}

\* the checks on recipients before the loop
BulkCheck_noCap(recipients) ==
  IF Len(recipients) = 0
    THEN "Recipients array is required and must not be empty"
  ELSE "ok"
BulkCheck(recipients) ==
  IF Len(recipients) = 0
    THEN "Recipients array is required and must not be empty"
  ELSE IF Len(recipients) > MAX_BULK_REQUEST
    THEN "Maximum 1000 recipients allowed per bulk request to prevent overwhelming the system"
  ELSE "ok"

\* phoneRegex.test(phoneNumber.replace(/[\s\-\(\)]/g, ''))
BulkValid(p) == phoneRegex(StripSeparators(Chars(p)))

\* index of the first recipient from i on that passes the test, one past
\* the end when there is none
NextValid(recipients, i) ==
  LET ok == {k \in i..Len(recipients) : BulkValid(recipients[k])}
  IN  IF ok = {} THEN Len(recipients) + 1
      ELSE CHOOSE k \in ok : \A o \in ok : k <= o

Result(p, st, err, id) ==
  [phoneNumber |-> p, status |-> st, error |-> err, smsId |-> id]

\* results.push({... 'Invalid phone number format'}); continue -- for the
\* recipients from i up to j
InvalidResults(recipients, i, j) ==
  [k \in 1..(j - i) |->
     Result(recipients[i + k - 1], "FAILED", "Invalid phone number format", 0)]

\* The for loop from recipient i on, res being the results so far: invalid
\* recipients are passed over without an await; at a valid one the handler
\* waits for prisma.smsLog.create; past the last one the response is sent.
BulkLoop_stopAtInvalid(recipients, message, i, res) ==
  LET j == IF i <= Len(recipients) /\ ~BulkValid(recipients[i])
             THEN Len(recipients) + 1 ELSE NextValid(recipients, i)
      r2 == res \o InvalidResults(recipients, i, j)
  IN  IF j > Len(recipients)
        THEN /\ bulk' = NoBulk
             /\ results' = r2
             /\ resp' = [op |-> "bulk", code |-> 200,
                         body |-> "Bulk SMS added to Arduino-safe queue"]
             /\ qstat' = getQueueStatus(smsQueue', isProcessingQueue)
        ELSE /\ bulk' = [recipients |-> recipients, message |-> message,
                         i |-> j, results |-> r2]
             /\ results' = NoResults
             /\ resp' = NoResp
             /\ qstat' = NoStat
BulkLoop(recipients, message, i, res) ==
  LET j == NextValid(recipients, i)
      r2 == res \o InvalidResults(recipients, i, j)
  IN  IF j > Len(recipients)
        THEN /\ bulk' = NoBulk
             /\ results' = r2
             /\ resp' = [op |-> "bulk", code |-> 200,
                         body |-> "Bulk SMS added to Arduino-safe queue"]
             /\ qstat' = getQueueStatus(smsQueue', isProcessingQueue)
        ELSE /\ bulk' = [recipients |-> recipients, message |-> message,
                         i |-> j, results |-> r2]
             /\ results' = NoResults
             /\ resp' = NoResp
             /\ qstat' = NoStat

\* The request arrives: the checks, then the loop up to its first await.
BulkStart(recipients) ==
  /\ bulksLeft > 0
  /\ bulk = NoBulk
  /\ bulksLeft' = bulksLeft - 1
  /\ UNCHANGED <<records, smsQueue, enqLog>>
  /\ IF BulkCheck(recipients) # "ok"
       THEN /\ resp' = [op |-> "bulk", code |-> 400, body |-> BulkCheck(recipients)]
            /\ bulk' = NoBulk
            /\ results' = NoResults
            /\ qstat' = NoStat
       ELSE \E m \in requestTexts : BulkLoop(recipients, m, 1, <<>>)
  /\ pub' = NoPub
  /\ log' = NoLog
  /\ UNCHANGED <<isProcessingQueue, isConnected, procVars, retries, statusJobs,
                 budgetVars, clockVars, deqGap, pubGap, lastExit, firstPub,
                 serviceVars>>

\* prisma.smsLog.create returns: addToSMSQueue, results.push({... 'QUEUED'}),
\* and the loop goes on.
BulkCreated ==
  /\ bulk # NoBulk
  /\ LET p == bulk.recipients[bulk.i]
         id == Len(records) + 1
     IN  /\ records' = Append(records, NewRecord(p, bulk.message))
         /\ smsQueue' = addToSMSQueue(smsQueue, p, bulk.message, id)
         /\ enqLog' = Append(enqLog, id)
         /\ BulkLoop(bulk.recipients, bulk.message, bulk.i + 1,
                     Append(bulk.results, Result(p, "QUEUED", None, id)))
  /\ pub' = NoPub
  /\ log' = NoLog
  /\ UNCHANGED <<isProcessingQueue, isConnected, procVars, retries, statusJobs,
                 budgetVars, clockVars, deqGap, pubGap, lastExit, firstPub,
                 bulksLeft, serviceVars>>

\* prisma.smsLog.create rejects: results.push({... 'Database error'}), and
\* the loop goes on.
BulkCreateThrows ==
  /\ bulk # NoBulk
  /\ UNCHANGED <<records, smsQueue, enqLog>>
  /\ BulkLoop(bulk.recipients, bulk.message, bulk.i + 1,
              Append(bulk.results,
                     Result(bulk.recipients[bulk.i], "FAILED", "Database error", 0)))
  /\ pub' = NoPub
  /\ log' = NoLog
  /\ UNCHANGED <<isProcessingQueue, isConnected, procVars, retries, statusJobs,
                 budgetVars, clockVars, deqGap, pubGap, lastExit, firstPub,
                 bulksLeft, serviceVars>>

\* ------------------------------------------------------ GET /queue-status
\* getQueueStatus() as the route calls it; the response carries this value.
QueueStatus ==
  /\ qstat' = getQueueStatus(smsQueue, isProcessingQueue)
  /\ resp' = [op |-> "queue-status", code |-> 200, body |-> "queue"]
  /\ pub' = NoPub
  /\ results' = NoResults
  /\ log' = NoLog
  /\ UNCHANGED <<records, smsQueue, isProcessingQueue, isConnected, procVars,
                 retries, statusJobs, budgetVars, clockVars, histVars, bulkVars, serviceVars>>

\* ------------------------------------------------------- POST /retry/:id
\* ids a caller may name: every row and one id that is in no row
RetryIds == 1..(Len(records) + 1)

\* the three early returns after findUnique
RetryCheck_noSentCheck(id) ==
  IF id \notin RecordIds THEN "SMS not found"
  ELSE IF records[id].retryCount >= RetryLimit THEN "Maximum retry attempts reached"
  ELSE "ok"
RetryCheck_offByOne(id) ==
  IF id \notin RecordIds THEN "SMS not found"
  ELSE IF records[id].status = "SENT" THEN "SMS already sent"
  ELSE IF records[id].retryCount > RetryLimit THEN "Maximum retry attempts reached"
  ELSE "ok"
RetryCheck(id) ==
  IF id \notin RecordIds THEN "SMS not found"
  ELSE IF records[id].status = "SENT" THEN "SMS already sent"
  ELSE IF records[id].retryCount >= RetryLimit THEN "Maximum retry attempts reached"
  ELSE "ok"

RetryReject(id) ==
  /\ RetryCheck(id) # "ok"
  /\ resp' = [op |-> "retry",
              code |-> IF id \in RecordIds THEN 400 ELSE 404,
              body |-> RetryCheck(id)]
  /\ pub' = NoPub
  /\ Silent
  /\ UNCHANGED <<records, smsQueue, isProcessingQueue, isConnected, procVars,
                 retries, statusJobs, budgetVars, clockVars, histVars, bulkVars, serviceVars>>

\* The checks pass: publishMessage is called with the row just read.  It
\* returns false at once when the client is not connected.
RetryAccept(id) ==
  /\ retriesLeft > 0
  /\ RetryCheck(id) = "ok"
  /\ retriesLeft' = retriesLeft - 1
  /\ resp' = NoResp
  /\ Silent
  /\ IF isConnected
       THEN /\ pub' = MqttMessage(records[id].phoneNumber, records[id].message)
            /\ pubGap' = sincePub
            /\ retries' = retries (+) SetToBag({[id |-> id,
                              retryCount |-> records[id].retryCount,
                              st |-> "publishing"]})
       ELSE /\ pub' = NoPub
            /\ pubGap' = pubGap
            /\ retries' = retries (+) SetToBag({[id |-> id,
                              retryCount |-> records[id].retryCount,
                              st |-> "refused"]})
  /\ UNCHANGED <<records, smsQueue, isProcessingQueue, isConnected, procVars,
                 statusJobs, submitsLeft, eventsLeft, requestNumbers, requestTexts,
                 clockVars, deqGap,
                 lastExit,
                 enqLog, firstPub, bulkVars, serviceVars>>

\* The row written by the success branch and by the else branch.
RetryWrite(r, success) ==
  [records EXCEPT ![r.id] =
     [@ EXCEPT !.status = IF success THEN "PENDING" ELSE "FAILED",
               !.retryCount = r.retryCount + 1,
               !.errorMsg = IF success THEN None
                            ELSE "Failed to publish to MQTT broker"]]

\* publishMessage resolves; the update is written and the response sent.
RetryResolve_enqueues(r) ==
  /\ BagIn(r, retries)
  /\ \E success \in (IF r.st = "publishing" THEN BOOLEAN ELSE {FALSE}) :
       /\ records' = RetryWrite(r, success)
       /\ sincePub' = IF success THEN Restart(sincePub) ELSE sincePub
       /\ resp' = [op |-> "retry",
                   code |-> IF success THEN 200 ELSE 500,
                   body |-> IF success THEN "PENDING" ELSE "SMS retry failed"]
  /\ smsQueue' = addToSMSQueue(smsQueue, records[r.id].phoneNumber,
                               records[r.id].message, r.id)
  /\ retries' = retries (-) SetToBag({r})
  /\ pub' = NoPub
  /\ Silent
  /\ UNCHANGED <<isProcessingQueue, isConnected, procVars,
                 statusJobs, budgetVars, tickIn, sleep, sinceDeq, histVars,
                 bulkVars, serviceVars>>
RetryResolve(r) ==
  /\ BagIn(r, retries)
  /\ \E success \in (IF r.st = "publishing" THEN BOOLEAN ELSE {FALSE}) :
       /\ records' = RetryWrite(r, success)
       /\ sincePub' = IF success THEN Restart(sincePub) ELSE sincePub
       /\ resp' = [op |-> "retry",
                   code |-> IF success THEN 200 ELSE 500,
                   body |-> IF success THEN "PENDING" ELSE "SMS retry failed"]
  /\ retries' = retries (-) SetToBag({r})
  /\ pub' = NoPub
  /\ Silent
  /\ UNCHANGED <<smsQueue, isProcessingQueue, isConnected, procVars,
                 statusJobs, budgetVars, tickIn, sleep, sinceDeq, histVars, bulkVars, serviceVars>>

\* ------------------------------------------- sms/status (handleIncomingMessage)
\* message.split('|'), the message given as its fields and separators
RECURSIVE split(_)
split(m) ==
  IF m = <<>> THEN <<"">>
  ELSE IF Head(m) = "|" THEN <<"">> \o split(Tail(m))
  ELSE <<Head(m)>> \o Tail(split(Tail(m)))

EventPhones == {"+15550001", "(44) 20-71"}
\* <<status, error>> fields of the status messages on the topic: the three
\* words the device sends and one it does not
StatusWords == {"SENT", "FAILED", "SENDING", "retry"}
StatusReports == {<<"SENT", None>>, <<"FAILED", None>>, <<"FAILED", "NO CARRIER">>,
                  <<"SENDING", None>>, <<"retry", None>>}

\* status.toUpperCase(), status.toLowerCase()
toUpperCase(w) == IF w = "retry" THEN "RETRY" ELSE w
toLowerCase(w) ==
  CASE w = "SENT" -> "sent"
    [] w = "FAILED" -> "failed"
    [] w = "SENDING" -> "sending"
    [] OTHER -> w

\* values of the status column: the enum of the initial migration and QUEUED
StatusEnum_open == {"PENDING", "SENT", "FAILED", "RETRY", "QUEUED", "SENDING"}
StatusEnum == {"PENDING", "SENT", "FAILED", "RETRY", "QUEUED"}

Unconfirmed_anyUnsent == {"PENDING", "RETRY", "QUEUED", "FAILED"}
Unconfirmed == {"PENDING", "RETRY", "QUEUED"}

\* findFirst({where: {phoneNumber, status in [...]}, orderBy createdAt desc});
\* 0 when there is no such row.
FindUnconfirmed_oldest(phone) ==
  LET hits == {id \in RecordIds : /\ records[id].phoneNumber = phone
                                  /\ records[id].status \in Unconfirmed}
  IN  IF hits = {} THEN 0 ELSE CHOOSE id \in hits : \A o \in hits : o >= id
FindUnconfirmed(phone) ==
  LET hits == {id \in RecordIds : /\ records[id].phoneNumber = phone
                                  /\ records[id].status \in Unconfirmed}
  IN  IF hits = {} THEN 0 ELSE CHOOSE id \in hits : \A o \in hits : o <= id

\* A status message arrives and findFirst returns; without a row the
\* handler logs a warning and ends.
StatusEvent(phone, st, err) ==
  /\ eventsLeft > 0
  /\ eventsLeft' = eventsLeft - 1
  /\ LET id == FindUnconfirmed(phone)
     IN  /\ statusJobs' = IF id = 0 THEN statusJobs
                          ELSE statusJobs (+) SetToBag({[id |-> id, status |-> st,
                                                         err |-> err]})
         /\ log' = IF id = 0 THEN "No pending SMS found" ELSE NoLog
  /\ resp' = NoResp /\ pub' = NoPub /\ results' = NoResults /\ qstat' = NoStat
  /\ UNCHANGED <<records, smsQueue, isProcessingQueue, isConnected, procVars,
                 retries, submitsLeft, retriesLeft, requestNumbers, requestTexts,
                 clockVars,
                 histVars, bulkVars, serviceVars>>

\* The message as the device builds it: phone + "|" + status, and the error
\* after another "|" when it is not empty (None standing for the empty one).
reportSMSStatus(phone, status, errorMsg) ==
  <<phone, "|", status>> \o (IF errorMsg = None THEN <<>> ELSE <<"|", errorMsg>>)

\* The message handler on topic sms/status: split, at least two fields,
\* errorMsg = parts[2] || null.
OnStatusMessage(m) ==
  LET parts == split(m)
  IN  /\ Len(parts) >= 2
      /\ StatusEvent(parts[1], parts[2],
                     IF Len(parts) >= 3 /\ parts[3] # "" THEN parts[3] ELSE None)

\* updateData as built from the status word and the error field
StatusWrite_defaultReason(j) ==
  [records EXCEPT ![j.id] =
     [@ EXCEPT !.status = toUpperCase(j.status),
               !.sentAt = IF toLowerCase(j.status) = "sent" THEN TRUE ELSE @,
               !.errorMsg = IF toLowerCase(j.status) = "sent" THEN None
                            ELSE IF toLowerCase(j.status) = "failed"
                              THEN "SMS delivery failed"
                            ELSE @]]
StatusWrite_noSentAt(j) ==
  [records EXCEPT ![j.id] =
     [@ EXCEPT !.status = toUpperCase(j.status),
               !.errorMsg = IF toLowerCase(j.status) = "sent" THEN None
                            ELSE IF toLowerCase(j.status) = "failed"
                              THEN (IF j.err = None THEN "SMS delivery failed" ELSE j.err)
                            ELSE @]]
StatusWrite(j) ==
  [records EXCEPT ![j.id] =
     [@ EXCEPT !.status = toUpperCase(j.status),
               !.sentAt = IF toLowerCase(j.status) = "sent" THEN TRUE ELSE @,
               !.errorMsg = IF toLowerCase(j.status) = "sent" THEN None
                            ELSE IF toLowerCase(j.status) = "failed"
                              THEN (IF j.err = None THEN "SMS delivery failed" ELSE j.err)
                            ELSE @]]

\* prisma.smsLog.update({where: {id: smsLog.id}, data: updateData}); a status
\* that is no member of the enum makes the update throw, which the handler
\* catches and logs.
StatusUpdate(j) ==
  /\ BagIn(j, statusJobs)
  /\ IF toUpperCase(j.status) \in StatusEnum
       THEN records' = StatusWrite(j) /\ log' = "Updated SMS status"
       ELSE records' = records /\ log' = "Failed to update SMS status"
  /\ statusJobs' = statusJobs (-) SetToBag({j})
  /\ resp' = NoResp /\ pub' = NoPub /\ results' = NoResults /\ qstat' = NoStat
  /\ UNCHANGED <<smsQueue, isProcessingQueue, isConnected, procVars, retries,
                 budgetVars, clockVars, histVars, bulkVars, serviceVars>>

\* ------------------------------------------------- topic sms/incoming
\* parseInt(s): the number spelled by the leading digits of s, as its
\* digits without leading zeros; NaN when s does not start with a digit.
NaN == <<>>
RECURSIVE LeadingDigits(_)
LeadingDigits(s) ==
  IF s = <<>> \/ Head(s) \notin Digits THEN <<>>
  ELSE <<Head(s)>> \o LeadingDigits(Tail(s))
RECURSIVE StripZeros(_)
StripZeros(d) == IF Len(d) > 1 /\ Head(d) = "0" THEN StripZeros(Tail(d)) ELSE d
parseInt(s) == StripZeros(LeadingDigits(s))
isNaN(v) == v = NaN

\* a < b for two numbers given by their digits
DigitValue(c) ==
  CASE c = "0" -> 0 [] c = "1" -> 1 [] c = "2" -> 2 [] c = "3" -> 3
    [] c = "4" -> 4 [] c = "5" -> 5 [] c = "6" -> 6 [] c = "7" -> 7
    [] c = "8" -> 8 [] c = "9" -> 9
RECURSIVE LessDigits(_, _)
LessDigits(a, b) ==
  IF a = <<>> THEN FALSE
  ELSE IF Head(a) # Head(b) THEN DigitValue(Head(a)) < DigitValue(Head(b))
  ELSE LessDigits(Tail(a), Tail(b))
Less(a, b) == Len(a) < Len(b) \/ (Len(a) = Len(b) /\ LessDigits(a, b))

\* 1000000000000, below which a device timestamp counts as time since boot
UnixMillisFloor == Chars("1000000000000")

\* new Date() and new Date(arduinoTimestamp)
Now == [clock |-> "server", ms |-> <<>>]
DeviceDate(v) == [clock |-> "device", ms |-> v]

\* the timestamp the handler stores, parts being the fields of the message
IncomingTimestamp_alwaysNow(parts) == Now
IncomingTimestamp(parts) ==
  IF Len(parts) >= 3 /\ parts[3] # ""
    THEN LET arduinoTimestamp == parseInt(Chars(parts[3]))
         IN  IF isNaN(arduinoTimestamp) THEN Now
             ELSE IF Less(arduinoTimestamp, UnixMillisFloor) THEN Now
             ELSE DeviceDate(arduinoTimestamp)
    ELSE Now

\* Messages on the topic: as the device builds them (number, text, millis
\* since boot), without a timestamp, with one that is no number, with Unix
\* milliseconds, and one without a text.
IncomingMessages ==
  {<<"+15550001", "|", "hello", "|", "52340">>,
   <<"+15550001", "|", "hello">>,
   <<"+15550001", "|", "hello", "|", "soon">>,
   <<"+15550001", "|", "hello", "|", "999999999999">>,
   <<"+15550001", "|", "hello", "|", "1000000000000">>,
   <<"+15550001", "|", "hello", "|", "1793700000000">>,
   <<"+15550001">>}

IncomingFrame ==
  /\ arrivalsLeft > 0
  /\ arrivalsLeft' = arrivalsLeft - 1
  /\ resp' = NoResp /\ pub' = NoPub /\ results' = NoResults /\ qstat' = NoStat
  /\ UNCHANGED <<records, smsQueue, isProcessingQueue, isConnected, procVars,
                 retries, statusJobs, budgetVars, clockVars, histVars,
                 bulkVars, reconnectAttempts, clientEnded>>

\* A message with fewer than two fields: the handler does nothing.
IncomingIgnored(m) ==
  /\ Len(split(m)) < 2
  /\ incoming' = incoming
  /\ log' = NoLog
  /\ IncomingFrame

\* prisma.incomingSms.create returns: the row is stored.
IncomingStore(m) ==
  /\ Len(split(m)) >= 2
  /\ incoming' = Append(incoming, [phoneNumber |-> split(m)[1],
                                   message |-> split(m)[2],
                                   receivedAt |-> IncomingTimestamp(split(m))])
  /\ log' = "Stored incoming SMS"
  /\ IncomingFrame

\* prisma.incomingSms.create rejects: the handler logs the error.
IncomingStoreThrows(m) ==
  /\ Len(split(m)) >= 2
  /\ incoming' = incoming
  /\ log' = "Failed to store incoming SMS"
  /\ IncomingFrame

\* ------------------------------------------------------------ behaviours
JobSpace ==
  [id : 1..(Len(StoredRecords) + MaxSubmits + TripSubmits),
   status : StatusWords, err : {None, "NO CARRIER"}]
RetrySpace ==
  [id : 1..(Len(PriorRecords) + MaxSubmits + QueueSubmits + PacedSubmits + TimedSubmits),
   retryCount : 0..RetryLimit, st : {"publishing", "refused"}]

\* processNextSMSInQueue and its timer callback
Processor ==
  \/ TickIdle
  \/ TickDequeue
  \/ SetPending
  \/ SetPendingThrows
  \/ PublishResolve
  \/ BackoffExpire
  \/ FailUpdate
  \/ FailUpdateThrows
  \/ CatchUpdate
  \/ DelayExpire
  \/ RequeueExpire

Connection == OnConnect \/ OnDisconnect

Rejected == \E p \in PhoneInputs : SendReject(p)
Accepted == \E p \in PhoneInputs : SendAccept(p)
Failed == \E p \in PhoneInputs : SendError(p)
Send == Rejected \/ Accepted \/ Failed

Bulk ==
  \/ \E recipients \in BulkInputs : BulkStart(recipients)
  \/ BulkCreated
  \/ BulkCreateThrows

Retry ==
  \/ \E id \in RetryIds : RetryReject(id)
  \/ \E id \in RetryIds : RetryAccept(id)
  \/ \E r \in RetrySpace : RetryResolve(r)

Incoming ==
  \/ \E m \in IncomingMessages : IncomingIgnored(m)
  \/ \E m \in IncomingMessages : IncomingStore(m)
  \/ \E m \in IncomingMessages : IncomingStoreThrows(m)

Status ==
  \/ \E phone \in EventPhones, rep \in StatusReports :
       OnStatusMessage(reportSMSStatus(phone, rep[1], rep[2]))
  \/ \E j \in JobSpace : StatusUpdate(j)

\* Every handler, timers falling due in any order.
Next == Processor \/ Connection \/ Send \/ Retry \/ Status \/ TimerDue
Spec == Init /\ [][Next]_vars

\* The queue and its processor under send requests only.
NextQueue == Processor \/ Connection \/ Send \/ TimerDue
SpecQueue == InitQueue /\ [][NextQueue]_vars

\* The writers of the table other than the processor: retry calls and status
\* reports on the rows already stored, no send request arriving.
NextStore == TickIdle \/ Connection \/ Retry \/ Status \/ TimerDue
SpecStore == InitStore /\ [][NextStore]_vars

\* The queue and its processor against the clock, timing the shifts.
NextPaced == Processor \/ Connection \/ Accepted \/ AdvanceTime
SpecPaced == InitPaced /\ [][NextPaced]_vars

\* The processor, send requests and retry calls against the clock, timing
\* the publishes.
NextTimed == Processor \/ Connection \/ Accepted \/ Retry \/ AdvanceTime
SpecTimed == InitTimed /\ [][NextTimed]_vars

\* Bulk requests and queue-status requests while the processor works on the
\* queue, the client connected or not.
NextBulk == Processor \/ Connection \/ Bulk \/ QueueStatus \/ TimerDue
SpecBulk == InitBulk /\ [][NextBulk]_vars

\* A message from the send request through the processor to the status
\* report of the device.
NextTrip == Processor \/ Connection \/ Accepted \/ Status \/ TimerDue
SpecTrip == InitTrip /\ [][NextTrip]_vars

\* Status reports on the rows of a table left by an earlier process.
NextCorrelate == TickIdle \/ Connection \/ Status \/ TimerDue
SpecCorrelate == InitCorrelate /\ [][NextCorrelate]_vars

\* The processor and the send route while the client loses its connection,
\* tries to reconnect and gives up.
NextLink == Processor \/ Connection \/ OnReconnect \/ Accepted \/ TimerDue
SpecLink == InitLink /\ [][NextLink]_vars

\* What the event loop guarantees: a timer that is pending falls due, a tick
\* that is due runs its callback, a database call returns or throws, and the
\* code after a timer or a database call runs.  Requests, connection events
\* and the broker's acknowledgement of a publish come from outside.
TickDue == TimerDue /\ tickIn' = 0
SleepDue == TimerDue /\ sleep' = 0
EventLoop ==
  /\ WF_vars(TickDue)
  /\ WF_vars(SleepDue)
  /\ WF_vars(TickIdle)
  /\ WF_vars(TickDequeue)
  /\ WF_vars(SetPending \/ SetPendingThrows)
  /\ WF_vars(BackoffExpire)
  /\ WF_vars(FailUpdate \/ FailUpdateThrows)
  /\ WF_vars(CatchUpdate)
  /\ WF_vars(DelayExpire)
  /\ WF_vars(RequeueExpire)
SpecLive == InitLink /\ [][NextLink]_vars /\ EventLoop

\* The same with a broker that answers every publish it was handed.
SpecAcked == InitLink /\ [][NextLink]_vars /\ EventLoop /\ WF_vars(PublishResolve)

\* Messages received by the device arriving while the relay sends.
NextInbox == Processor \/ Connection \/ Accepted \/ Incoming \/ TimerDue
SpecInbox == InitInbox /\ [][NextInbox]_vars

\* What runs beside the processor and the send route, one kind in a
\* behaviour: retry calls, status reports or messages received by the device.
NextOwner == Processor \/ Connection \/ Accepted \/ Retry \/ Status \/ Incoming \/ TimerDue
SpecOwner == InitOwner /\ [][NextOwner]_vars

\* The relay started on a table whose earlier rows are still PENDING or
\* QUEUED, no status report arriving, every publish answered.
SpecProgress ==
  InitProgress /\ [][NextLink]_vars /\ EventLoop /\ WF_vars(PublishResolve)

\* Two messages to one number and the device's report on the first.
SpecPair == InitPair /\ [][NextTrip]_vars

TypeOK ==
  /\ isProcessingQueue \in BOOLEAN
  /\ isConnected \in BOOLEAN
  /\ \A id \in RecordIds : records[id].retryCount \in Nat

\* ================================================================ claims
RetryCall(id) == RetryAccept(id) \/ RetryReject(id)
SendCall(p) == SendAccept(p) \/ SendReject(p)

\* C1: a row whose status is SENT keeps status SENT in every later state,
\* whichever handler takes the step.
C1_SentIsNeverOverwritten ==
  [][\A id \in RecordIds :
       records[id].status = "SENT" => records'[id].status = "SENT"]_vars

\* C2: when status reports for the same number are handled by overlapping
\* invocations (findFirst of both before the update of either), the update
\* of one never turns a row that is already SENT into FAILED.
C2_NoDowngradeByStatusReport ==
  [][\A j \in JobSpace :
       StatusUpdate(j) =>
         \A id \in RecordIds :
           records[id].status = "SENT" => records'[id].status # "FAILED"]_vars

\* C3 as stated: every shift of the queue comes at least
\* DELAY_BETWEEN_MESSAGES after the shift before it.
C3_EveryShiftPaced ==
  deqGap = NoTime \/ deqGap >= DELAY_BETWEEN_MESSAGES

\* C3 amended: when the flag is free again, the time since the last shift is
\* at least DELAY_BETWEEN_MESSAGES if that cycle ran its publish loop and
\* the safety delay, and at least the 10 s re-queue wait if it found the
\* client not connected; so the next shift is at least that far from it.
C3_PacedByExit ==
  ~isProcessingQueue =>
     /\ lastExit = "delay" => sinceDeq >= DELAY_BETWEEN_MESSAGES
     /\ lastExit = "requeue" => sinceDeq >= RequeueWait

\* a second entry has just been shifted, 45 s or more after the one before
C3_Witness ==
  /\ pc = "setPending"
  /\ lastExit = "delay"
  /\ deqGap >= DELAY_BETWEEN_MESSAGES
  /\ Len(firstPub) >= 1

\* C4: once a publish has been acknowledged, no handler hands another
\* message to client.publish before DELAY_BETWEEN_MESSAGES has passed.
C4_SingleFlight ==
  pubGap = NoTime \/ pubGap >= DELAY_BETWEEN_MESSAGES

\* C5: the entries get their first publish attempt by the processor in the
\* order in which addToSMSQueue pushed them.
Pos(seq, x) == CHOOSE i \in 1..Len(seq) : seq[i] = x
C5_Fifo ==
  \A i, j \in 1..Len(firstPub) :
     i < j => Pos(enqLog, firstPub[i]) < Pos(enqLog, firstPub[j])

\* an entry that was put back is being published while a later one waits
C5_Witness ==
  /\ pc = "publishing"
  /\ lastExit = "requeue"
  /\ smsQueue # <<>>
  /\ Head(smsQueue).smsId > smsItem.smsId
  /\ firstPub[Len(firstPub)] = smsItem.smsId

C7_RetryOnlyWhenFailed ==
  [][\A id \in RecordIds :
       (RetryCall(id) /\ records[id].status \in {"QUEUED", "PENDING"})
       => /\ resp'.code = 400
          /\ pub' = NoPub
          /\ UNCHANGED <<records, smsQueue, retries>>]_vars

\* C8: a retry call with an id that is in no row is answered 404 'SMS not
\* found', one on a SENT row 400 'SMS already sent'; either way nothing is
\* published and table, queue and flag stay as they are.
C8_RetryRefusals ==
  [][\A id \in RetryIds :
       (RetryCall(id) /\ (id \notin RecordIds \/ records[id].status = "SENT"))
       => /\ resp' = IF id \notin RecordIds
                       THEN [op |-> "retry", code |-> 404, body |-> "SMS not found"]
                       ELSE [op |-> "retry", code |-> 400, body |-> "SMS already sent"]
          /\ pub' = NoPub
          /\ UNCHANGED <<records, smsQueue, isProcessingQueue, retries,
                         statusJobs>>]_vars

C8_Witness ==
  /\ resp = [op |-> "retry", code |-> 400, body |-> "SMS already sent"]
  /\ \E id \in RecordIds : records[id].status = "SENT" /\ records[id].retryCount > 0

\* C9: an accepted retry call pushes a queue entry for the row and publishes
\* nothing itself, and leaves the row PENDING with retryCount one higher and
\* errorMsg null, the table having as many rows as before.
C9_RetryReenqueues ==
  [][\A id \in RecordIds :
       RetryAccept(id) =>
         /\ smsQueue' = addToSMSQueue(smsQueue, records[id].phoneNumber,
                                      records[id].message, id)
         /\ pub' = NoPub
         /\ Len(records') = Len(records)
         /\ records'[id].status = "PENDING"
         /\ records'[id].retryCount = records[id].retryCount + 1
         /\ records'[id].errorMsg = None]_vars

\* C10: a send request whose number does not match the pattern is answered
\* 400 and leaves table, queue, flag and everything else as it was.
Malformed == {"not-a-number", "0155", "+7", "1234567890123456", "15+55", ""}
C10_InvalidNumberRejected ==
  [][\A p \in Malformed :
       SendCall(p) =>
         /\ resp'.op = "send" /\ resp'.code = 400
         /\ pub' = NoPub
         /\ UNCHANGED <<records, smsQueue, isProcessingQueue, procVars,
                        retries, statusJobs, enqLog>>]_vars

\* 'not-a-number' was just refused while an entry waits and one is in flight
C10_Witness ==
  /\ resp = [op |-> "send", code |-> 400, body |-> "Invalid phone number format"]
  /\ smsQueue # <<>>
  /\ isProcessingQueue
  /\ Len(records) > Len(PriorRecords)

\* C11: an accepted send request adds exactly one row, QUEUED with
\* retryCount 0, pushes exactly one entry for it at the tail of the queue and
\* answers QUEUED, leaving the flag, the running cycle, its timers and the
\* connection as they are; and a send request can be accepted in every state
\* of the processor and of the connection.
C11_SubmitEnqueuesAtOnce ==
  [][/\ submitsLeft > 0 => ENABLED SendAccept("+15550001")
     /\ \A p \in PhoneInputs :
          SendAccept(p) =>
            /\ Len(records') = Len(records) + 1
            /\ SubSeq(records', 1, Len(records)) = records
            /\ \E m \in requestTexts :
                 /\ records'[Len(records')] =
                      [phoneNumber |-> p, message |-> m, status |-> "QUEUED",
                       retryCount |-> 0, errorMsg |-> None, sentAt |-> FALSE]
                 /\ smsQueue' = Append(smsQueue, [phone |-> p, message |-> m,
                                                  smsId |-> Len(records')])
            /\ resp' = [op |-> "send", code |-> 200, body |-> "QUEUED"]
            /\ pub' = NoPub
            /\ UNCHANGED <<isProcessingQueue, isConnected, procVars, tickIn,
                           sleep>>]_vars

\* a request was accepted behind a waiting entry while the cycle sits in its
\* 10 s wait with the client not connected
C11_Witness ==
  /\ resp = [op |-> "send", code |-> 200, body |-> "QUEUED"]
  /\ pc = "requeueWait"
  /\ ~isConnected
  /\ Len(smsQueue) = 2
  /\ smsQueue[2].smsId = Len(records)

\* C12: a bulk request with more recipients than MAX_BULK_REQUEST is answered
\* 400 and ends there: no row is stored, nothing is pushed on the queue and
\* the handler is not left waiting for anything.
C12_OversizeBatchRejected ==
  [][\A b \in BulkInputs :
       (BulkStart(b) /\ Len(b) > MAX_BULK_REQUEST) =>
         /\ resp'.op = "bulk" /\ resp'.code = 400
         /\ bulk' = NoBulk
         /\ results' = NoResults
         /\ UNCHANGED <<records, smsQueue, enqLog>>]_vars

\* the request with one recipient too many was just refused
C12_Witness ==
  /\ resp = [op |-> "bulk", code |-> 400,
             body |-> "Maximum 1000 recipients allowed per bulk request to prevent overwhelming the system"]
  /\ bulksLeft < BulkCalls
  /\ bulk = NoBulk
  /\ Len(records) = Len(PriorRecords)

\* the step that sends the response to the bulk request with recipients b
BulkResponds(b) ==
  /\ resp'.op = "bulk" /\ resp'.code = 200
  /\ \/ BulkStart(b)
     \/ bulk.recipients = b /\ (BulkCreated \/ BulkCreateThrows)

\* the per-item results are one per recipient, in the order of the request,
\* those that are QUEUED naming distinct rows for their numbers, pushed in
\* that order, and a step of the handler that stores no row pushes nothing
BulkResultsInOrder(b) ==
  /\ Len(results') = Len(b)
  /\ \A k \in 1..Len(b) :
       /\ results'[k].phoneNumber = b[k]
       /\ results'[k].status = "QUEUED" =>
            /\ results'[k].smsId \in 1..Len(records')
            /\ records'[results'[k].smsId].phoneNumber = b[k]
            /\ Cardinality({n \in 1..Len(enqLog') :
                              enqLog'[n] = results'[k].smsId}) = 1
       /\ results'[k].status # "QUEUED" =>
            /\ results'[k].status = "FAILED"
            /\ results'[k].smsId = 0
  /\ LET queued == {k \in 1..Len(b) : results'[k].status = "QUEUED"}
     IN  \A k, l \in queued :
           k < l => Pos(enqLog', results'[k].smsId) < Pos(enqLog', results'[l].smsId)

BulkStepStoresOne ==
  /\ BulkCreated =>
       /\ records' = Append(records, NewRecord(bulk.recipients[bulk.i],
                                                bulk.message))
       /\ smsQueue' = Append(smsQueue, [phone |-> bulk.recipients[bulk.i],
                                        message |-> bulk.message,
                                        smsId |-> Len(records')])
  /\ (BulkCreateThrows \/ \E b \in BulkInputs : BulkStart(b))
       => UNCHANGED <<records, smsQueue, enqLog>>

\* C13 as stated: in the response to a bulk request within the cap every
\* valid recipient has a QUEUED result with its one row and its one entry,
\* in the order of the request, and every invalid one a FAILED result with
\* no row and no entry.
C13_EveryValidQueued ==
  [][/\ BulkStepStoresOne
     /\ \A b \in BulkInputs :
          BulkResponds(b) =>
            /\ BulkResultsInOrder(b)
            /\ \A k \in 1..Len(b) :
                 (results'[k].status = "QUEUED") <=> BulkValid(b[k])]_vars

\* C13 amended: every invalid recipient has a FAILED result 'Invalid phone
\* number format' and every valid one either a QUEUED result with its one
\* row and its one entry or, when storing the row failed, a FAILED result
\* 'Database error' with no row and no entry; the results are one per
\* recipient in the order of the request, so neither an invalid recipient
\* nor a storage error keeps a later recipient from being handled.
C13_ValidQueuedOrStorageError ==
  [][/\ BulkStepStoresOne
     /\ \A b \in BulkInputs :
          BulkResponds(b) =>
            /\ BulkResultsInOrder(b)
            /\ \A k \in 1..Len(b) :
                 /\ ~BulkValid(b[k]) =>
                      /\ results'[k].status = "FAILED"
                      /\ results'[k].error = "Invalid phone number format"
                 /\ BulkValid(b[k]) =>
                      \/ results'[k].status = "QUEUED"
                      \/ results'[k].error = "Database error"]_vars

\* the response to the request whose second recipient is invalid: the first
\* and the third are queued, the third as the newest row
C13_Witness ==
  /\ resp.op = "bulk" /\ resp.code = 200
  /\ Len(results) = Len(MixedBatch)
  /\ results[1].status = "QUEUED"
  /\ results[2].error = "Invalid phone number format"
  /\ results[3].status = "QUEUED"
  /\ results[3].smsId = Len(records)
  /\ results[1].smsId < results[3].smsId

\* C14: whenever getQueueStatus is called, what it returns is the length of
\* the queue, the flag, and that length times the delay between messages,
\* in seconds.
C14_QueueStatusMatches ==
  [][qstat' # NoStat =>
       /\ qstat'.queueSize = Len(smsQueue')
       /\ qstat'.isProcessing = isProcessingQueue'
       /\ qstat'.estimatedWaitTime * 1000 = Len(smsQueue') * DELAY_BETWEEN_MESSAGES]_vars

\* a queue-status request answered while a cycle is running and two entries
\* wait
C14_Witness ==
  /\ resp.op = "queue-status"
  /\ qstat.queueSize = 2
  /\ qstat.isProcessing
  /\ qstat.estimatedWaitTime = 90
  /\ Len(smsQueue) = 2

\* C15 as stated: the update after the last failed publish attempt leaves the
\* row FAILED with errorMsg 'relay unavailable' and its retryCount as it was.
C15_ExhaustedRelayUnavailable ==
  [][FailUpdate =>
       /\ records'[smsItem.smsId].status = "FAILED"
       /\ records'[smsItem.smsId].errorMsg = "relay unavailable"
       /\ records'[smsItem.smsId].retryCount = records[smsItem.smsId].retryCount]_vars

\* C15 amended: that update leaves the row FAILED with errorMsg 'Failed to
\* send to Arduino after retries'; when the store rejects it, the catch block
\* writes FAILED with 'Queue processing error' or, rejected again, nothing.
\* retryCount is as it was either way, and no other row changes.
C15_ExhaustedFailed ==
  [][/\ FailUpdate =>
          /\ records'[smsItem.smsId].status = "FAILED"
          /\ records'[smsItem.smsId].errorMsg = "Failed to send to Arduino after retries"
     /\ CatchUpdate =>
          \/ records' = records
          \/ /\ records'[smsItem.smsId].status = "FAILED"
             /\ records'[smsItem.smsId].errorMsg = "Queue processing error"
     /\ (FailUpdate \/ CatchUpdate) =>
          /\ records'[smsItem.smsId].retryCount = records[smsItem.smsId].retryCount
          /\ \A id \in RecordIds \ {smsItem.smsId} : records'[id] = records[id]]_vars

\* the third attempt failed and the row has just been marked FAILED
C15_Witness ==
  /\ pc = "delay"
  /\ attempt = maxAttempts
  /\ records[smsItem.smsId].status = "FAILED"
  /\ records[smsItem.smsId].errorMsg = "Failed to send to Arduino after retries"
  /\ records[smsItem.smsId].retryCount = 0

\* C16 as stated: once the row is marked FAILED after the last failed
\* attempt, the flag is free, with no wait for the delay between messages.
C16_ReleasedOnFailure ==
  [][FailUpdate => ~isProcessingQueue']_vars

\* C16 amended: after marking the row FAILED the cycle keeps the flag and
\* waits DELAY_BETWEEN_MESSAGES, as after a publish that succeeded, and gives
\* the flag up only when that wait is over; the flag is given up with no wait
\* only by the catch block, when the store rejected an update.
C16_HeldThroughDelay ==
  [][/\ FailUpdate =>
          /\ isProcessingQueue'
          /\ pc' = "delay"
          /\ sleep' = DELAY_BETWEEN_MESSAGES
     /\ (pc = "delay" /\ ~isProcessingQueue') => (DelayExpire /\ sleep = 0)
     /\ CatchUpdate => ~isProcessingQueue']_vars

\* the row is FAILED, 40 s of the delay have passed, the flag is still held
\* and another entry waits
C16_Witness ==
  /\ pc = "delay"
  /\ isProcessingQueue
  /\ records[smsItem.smsId].status = "FAILED"
  /\ attempt = maxAttempts
  /\ sleep = TickInterval
  /\ smsQueue # <<>>

\* C17: the row of an accepted send request is QUEUED; the processor's
\* update after the shift makes it PENDING, and with no status report in
\* between it is PENDING when the publish is acknowledged; no step of the
\* processor, of a send request or of the clock makes a row SENT; the update
\* of a SENT status report leaves its row SENT with sentAt set and errorMsg
\* null.
C17_RoundTrip ==
  [][/\ \A p \in PhoneInputs :
          SendAccept(p) => records'[Len(records')].status = "QUEUED"
     /\ SetPending => records'[smsItem.smsId].status = "PENDING"
     /\ (PublishResolve /\ pc' = "delay" /\ eventsLeft = TripEvents)
          => records'[smsItem.smsId].status = "PENDING"
     /\ (\E id \in RecordIds :
           records[id].status # "SENT" /\ records'[id].status = "SENT")
          => \E j \in JobSpace : StatusUpdate(j) /\ toLowerCase(j.status) = "sent"
     /\ \A j \in JobSpace :
          (StatusUpdate(j) /\ toLowerCase(j.status) = "sent") =>
            /\ records'[j.id].status = "SENT"
            /\ records'[j.id].sentAt
            /\ records'[j.id].errorMsg = None]_vars

\* the row of this run's send request was published once by the processor
\* and the device's SENT report has just been written to it
C17_Witness ==
  /\ log = "Updated SMS status"
  /\ Len(records) = Len(PriorRecords) + 1
  /\ firstPub = <<Len(records)>>
  /\ pc = "delay"
  /\ records[Len(records)].status = "SENT"
  /\ records[Len(records)].sentAt
  /\ records[Len(records)].errorMsg = None
  /\ records[Len(records)].retryCount = 0

\* the newest row for a number whose status is one of sts, 0 without one
Newest(phone, sts) ==
  LET rows == {id \in RecordIds : /\ records[id].phoneNumber = phone
                                  /\ records[id].status \in sts}
  IN  IF rows = {} THEN 0
      ELSE CHOOSE id \in rows : \A o \in rows \ {id} : o < id

StatusArrives(phone) ==
  \E rep \in StatusReports : StatusEvent(phone, rep[1], rep[2])

PicksNewest(sts) ==
  /\ \A phone \in EventPhones :
       StatusArrives(phone) =>
         /\ records' = records
         /\ IF Newest(phone, sts) = 0
              THEN statusJobs' = statusJobs
              ELSE \E j \in JobSpace :
                     /\ j.id = Newest(phone, sts)
                     /\ statusJobs' = statusJobs (+) SetToBag({j})
  /\ \A j \in JobSpace :
       StatusUpdate(j) =>
         /\ Len(records') = Len(records)
         /\ \A id \in RecordIds \ {j.id} : records'[id] = records[id]

C20_FourStatuses ==
  [][\A id \in 1..Len(records') :
       records'[id].status \in {"QUEUED", "PENDING", "SENT", "FAILED"}]_vars

\* C20 amended: every row's status is QUEUED, PENDING, SENT, FAILED or RETRY
\* after every step; a report whose word names none of them, as SENDING
\* does, changes no row, and one whose word names one of them is written.
C20_EnumStatuses ==
  [][/\ \A id \in 1..Len(records') :
          records'[id].status \in {"QUEUED", "PENDING", "SENT", "FAILED", "RETRY"}
     /\ \A j \in JobSpace :
          StatusUpdate(j) =>
            IF j.status = "SENDING"
              THEN records' = records /\ log' = "Failed to update SMS status"
              ELSE records'[j.id].status = toUpperCase(j.status)]_vars

\* a SENDING report has just been turned away from a row that an earlier
\* report had put into RETRY
C20_Witness ==
  /\ log = "Failed to update SMS status"
  /\ \E id \in RecordIds : records[id].status = "RETRY"

\* C21: a row changes its status only from QUEUED to PENDING, from PENDING to
\* SENT or to FAILED, and from FAILED to PENDING; the last happens only in
\* the step that ends a retry call and with retryCount one higher, so never
\* in the processor's update after the shift, which moves no SENT and no
\* FAILED row to PENDING.
C21_StateMachineOnly ==
  [][\A id \in RecordIds :
       records'[id].status # records[id].status =>
         /\ <<records[id].status, records'[id].status>> \in
              {<<"QUEUED", "PENDING">>, <<"PENDING", "SENT">>,
               <<"PENDING", "FAILED">>, <<"FAILED", "PENDING">>}
         /\ records[id].status = "FAILED" =>
              /\ \E r \in RetrySpace : RetryResolve(r)
              /\ records'[id].retryCount = records[id].retryCount + 1]_vars

\* ids of the entries in a queue, ids of the entries already published
QueuedIds(q) == {q[i].smsId : i \in 1..Len(q)}
PublishedIds(f) == {f[i] : i \in 1..Len(f)}

C29_GuardedTick ==
  [][/\ TickIdle =>
          /\ pub' = NoPub
          /\ UNCHANGED <<records, smsQueue, isProcessingQueue, procVars,
                         retries, statusJobs>>
     /\ TickDequeue => ~isProcessingQueue /\ smsQueue # <<>>
     /\ ~isProcessingQueue /\ isProcessingQueue' => TickDequeue
     /\ isProcessingQueue /\ isProcessingQueue' => smsItem' = smsItem
     /\ isProcessingQueue' <=> pc' # "idle"]_vars

\* a tick came while a cycle was in its safety delay and an entry waited
C29_Witness ==
  /\ pc = "delay"
  /\ isProcessingQueue
  /\ smsQueue # <<>>
  /\ tickIn = TickInterval
  /\ sleep >= 0 /\ sleep <= InterSendSleep - TickInterval

\* C30: a cycle counts its publish attempts one by one up to 3 and no
\* further; an attempt after the first is made only from the backoff that
\* follows an attempt that returned false, when its 3 s are over, so the
\* n-th attempt comes at least (n-1) times 3 s after the shift; an attempt
\* that returned true leads to the safety delay, where no attempt is made.
C30_AttemptsBounded ==
  [][/\ attempt' <= 3
     /\ attempt' # attempt => attempt' = attempt + 1 \/ attempt' = 0
     /\ attempt' = attempt + 1 /\ attempt >= 1 =>
          /\ BackoffExpire
          /\ pc = "backoff" /\ sleep = 0
          /\ sinceDeq >= attempt * 3000
     /\ pc # "backoff" /\ pc' = "backoff" =>
          /\ pc \in {"publishing", "setPending"}
          /\ sleep' = 3000
          /\ attempt' < 3
     /\ pub' # NoPub => attempt' = attempt + 1
     /\ pc = "delay" => attempt' \in {attempt, 0} /\ pub' = NoPub
     /\ QueuedIds(smsQueue') \cap PublishedIds(firstPub') = {}]_vars

\* the third attempt of a cycle is on its way, two backoffs after the shift
C30_Witness ==
  /\ pc = "publishing"
  /\ attempt = 3
  /\ sinceDeq >= 2 * PublishBackoff

\* C28: every message handed to client.publish, by the processor or by a
\* retry call, is the number of a row, the separator and the first
\* min(140, length) characters of that row's text, so never more than 140
\* characters of text.
C28_PublishTruncated ==
  pub # NoPub =>
    /\ Len(pub) = 3
    /\ pub[2] = "|"
    /\ pub[3] <= 140
    /\ \E id \in RecordIds :
         /\ pub[1] = records[id].phoneNumber
         /\ pub[3] = Min(140, records[id].message)

\* C23: a cycle that has set the flag clears it again, also when the broker
\* never acknowledges a publish.
C23_FlagEventuallyCleared ==
  isProcessingQueue ~> ~isProcessingQueue

\* C24: a connect sets the counter to 0; the reconnect that makes it 5 ends
\* the client, after which no reconnect is attempted; and once the client is
\* ended the relay does not go on as before: no send request is accepted
\* into the queue and no entry is shifted.
C24_GivesUpLoudly ==
  [][/\ OnConnect => reconnectAttempts' = 0
     /\ reconnectAttempts' >= 5 => clientEnded'
     /\ clientEnded => reconnectAttempts' = reconnectAttempts /\ clientEnded'
     /\ clientEnded =>
          /\ ~TickDequeue
          /\ \A p \in PhoneInputs : ~SendAccept(p)]_vars

\* rows a behaviour of SpecLink, SpecLive or SpecAcked can create
LinkIds == (Len(PriorRecords) + 1)..(Len(PriorRecords) + LinkSubmits)

\* C25: an entry whose cycle finds the transport not connected, the client
\* having given up for good, is not attempted for ever: its row becomes
\* FAILED (or, the store failing, the catch block has dropped the entry).
C25_FailedWhenTransportGone ==
  \A id \in LinkIds :
    (clientEnded /\ pc = "requeueWait" /\ smsItem.smsId = id)
      ~> \/ id \in RecordIds /\ records[id].status = "FAILED"
         \/ id \notin QueuedIds(smsQueue) /\ smsItem.smsId # id

IncomingHandled(m) == IncomingStore(m) \/ IncomingStoreThrows(m)

\* C27 as stated: an sms/incoming message with a number and a text adds
\* exactly one row to incoming_sms, whose receivedAt is the server's own
\* clock whatever the third field is, and changes no row of sms_logs, not
\* the queue and not the flag.
C27_AlwaysReceiptTime ==
  [][\A m \in IncomingMessages :
       IncomingHandled(m) =>
         /\ Len(incoming') = Len(incoming) + 1
         /\ incoming'[Len(incoming')].receivedAt = Now
         /\ UNCHANGED <<records, smsQueue, isProcessingQueue>>]_vars

\* third fields that are numbers of 10^12 or more
UnixMillisStamps == {"1000000000000", "1793700000000"}

\* C27: an sms/incoming message with a number and a text adds exactly one
\* row to incoming_sms with that number and text, unless the store rejects
\* the insert, which adds none; receivedAt is the server's own clock when
\* the third field is missing, no number or a number below 10^12, and the
\* device's value when it is 10^12 or more; no row of sms_logs, not the
\* queue and not the flag are changed.
C27_ReceiptTimeUnlessUnixMillis ==
  [][\A m \in IncomingMessages :
       /\ IncomingStore(m) =>
            /\ Len(incoming') = Len(incoming) + 1
            /\ SubSeq(incoming', 1, Len(incoming)) = incoming
            /\ incoming'[Len(incoming')].phoneNumber = m[1]
            /\ incoming'[Len(incoming')].message = m[3]
            /\ incoming'[Len(incoming')].receivedAt =
                 IF Len(m) = 5 /\ m[5] \in UnixMillisStamps
                   THEN [clock |-> "device", ms |-> Chars(m[5])]
                   ELSE [clock |-> "server", ms |-> <<>>]
       /\ IncomingStoreThrows(m) => incoming' = incoming
       /\ IncomingHandled(m) =>
            UNCHANGED <<records, smsQueue, isProcessingQueue, procVars>>]_vars

\* a message with Unix milliseconds was stored while an entry waited in the
\* queue
C27_Witness ==
  /\ log = "Stored incoming SMS"
  /\ smsQueue # <<>>
  /\ \E i \in 1..Len(incoming) : incoming[i].receivedAt.clock = "device"

\* C31 as stated: a send accepted while the flag is clear and the queue
\* empty starts the cycle for its entry in the same step.
C31_WokenOnEnqueue ==
  [][\A p \in PhoneInputs :
       SendAccept(p) /\ ~isProcessingQueue /\ smsQueue = <<>> =>
         /\ isProcessingQueue'
         /\ smsItem'.smsId = Len(records')]_vars

\* C31: a send accepted while the flag is clear and the queue empty leaves
\* the flag clear, the processor idle and the interval timer as it runs, its
\* entry alone in the queue; an entry leaves the head of the queue only in
\* the callback of the interval timer when that is due, and a due callback
\* that finds the flag clear and an entry waiting does shift it.
C31_WokenByTickOnly ==
  [][/\ \A p \in PhoneInputs :
          SendAccept(p) /\ ~isProcessingQueue /\ smsQueue = <<>> =>
            /\ ~isProcessingQueue'
            /\ pc' = "idle" /\ smsItem' = NoItem
            /\ tickIn' = tickIn
            /\ Len(smsQueue') = 1
            /\ smsQueue'[1].smsId = Len(records')
     /\ Len(smsQueue') < Len(smsQueue) =>
          /\ TickDequeue
          /\ tickIn = 0 /\ tickIn' = TickInterval
          /\ smsItem' = Head(smsQueue)
     /\ TickIdle => isProcessingQueue \/ smsQueue = <<>>
     /\ tickIn' >= 0 /\ tickIn' <= TickInterval]_vars

\* a send was accepted by the idle relay, some time before the next tick
C31_Witness ==
  /\ resp = [op |-> "send", code |-> 200, body |-> "QUEUED"]
  /\ ~isProcessingQueue /\ pc = "idle"
  /\ Len(smsQueue) = 1
  /\ tickIn > 0 /\ tickIn < TickInterval

ProgressIds == (Len(StoredRecords) + 1)..(Len(StoredRecords) + ProgressSubmits)

\* C33 as stated: with the client connected throughout and every publish
\* answered, an entry in the queue is shifted and handed to client.publish,
\* no status report ever arriving and earlier rows staying PENDING.
C33_EveryEntryPublished ==
  [](isConnected) =>
    \A id \in ProgressIds :
      (id \in QueuedIds(smsQueue)) ~> (id \in PublishedIds(firstPub))

\* C33: with the client connected throughout and every publish answered, an
\* entry in the queue is shifted and then handed to client.publish, or
\* dropped by the catch block when the store rejects the PENDING update, no
\* status report ever arriving and earlier rows staying PENDING.
C33_EveryEntryPublishedOrDropped ==
  [](isConnected) =>
    \A id \in ProgressIds :
      (id \in QueuedIds(smsQueue))
        ~> \/ id \in PublishedIds(firstPub)
           \/ id \notin QueuedIds(smsQueue) /\ smsItem.smsId # id

\* the new entry was published and its cycle is over, the client connected,
\* while the rows of the earlier process are still PENDING
C33_Witness ==
  /\ isConnected /\ reconnectAttempts = 0
  /\ pc = "idle"
  /\ \E id \in ProgressIds : id \in PublishedIds(firstPub)
  /\ \E id \in 1..Len(StoredRecords) : records[id].status = "PENDING"

\* C34: the row of every entry that is in the queue has status QUEUED.
C34_QueuedWhileInQueue ==
  \A i \in 1..Len(smsQueue) : records[smsQueue[i].smsId].status = "QUEUED"

\* C35: when a status report arrives for the number of the row the processor
\* has just published, that row being PENDING and no other row of the number
\* being PENDING, the handler picks that row; a row of the number that is
\* only QUEUED is not picked.
C35_ReportGoesToPublished ==
  [][\A phone \in EventPhones, rep \in StatusReports :
       /\ StatusEvent(phone, rep[1], rep[2])
       /\ pc = "delay"
       /\ records[smsItem.smsId].phoneNumber = phone
       /\ records[smsItem.smsId].status = "PENDING"
       /\ \A o \in RecordIds \ {smsItem.smsId} :
            records[o].phoneNumber = phone => records[o].status # "PENDING"
       => \E j \in JobSpace :
            /\ j.id = smsItem.smsId
            /\ CopiesIn(j, statusJobs') = CopiesIn(j, statusJobs) + 1]_vars

\* C36: every accepted retry call raises the row's retryCount by one when it
\* completes, whether its publish succeeded or failed and whether or not
\* another accepted call for the same row is in flight, so that retryCount
\* counts the accepted calls.
C36_EveryAcceptedCallCounts ==
  [][\A r \in RetrySpace :
       RetryResolve(r) => records'[r.id].retryCount = records[r.id].retryCount + 1]_vars

\* C37: the processor publishes each admitted row successfully at most
\* once: a cycle only ever starts on an entry that no cycle has tried to
\* publish before; the cycle that puts its entry back at the head has made
\* no publish call for it; and once a publish has succeeded the cycle only
\* waits out the delay and ends, with no further publish call.
C37_PublishedAtMostOnce ==
  [][/\ TickDequeue => Head(smsQueue).smsId \notin PublishedIds(firstPub)
     /\ SetPending /\ ~isConnected =>
          /\ smsQueue' = <<smsItem>> \o smsQueue
          /\ pub' = NoPub
          /\ attempt = 0 /\ attempt' = 0
          /\ smsItem.smsId \notin PublishedIds(firstPub')
     /\ pub' # NoPub =>
          /\ pc \in {"setPending", "backoff"} /\ pc' = "publishing"
          /\ pub'[1] = smsItem.phone
          /\ smsItem.smsId \in PublishedIds(firstPub')
     /\ pc = "publishing" /\ pc' # pc => pc' \in {"delay", "backoff", "failUpdate"}
     /\ pc = "delay" => pc' \in {"delay", "idle"} /\ pub' = NoPub]_vars

\* an entry that was put back once has now been published with success, its
\* row PENDING, while the cycle waits out the delay
C37_Witness ==
  /\ pc = "delay"
  /\ lastExit = "requeue"
  /\ firstPub # <<>> /\ firstPub[Len(firstPub)] = smsItem.smsId
  /\ records[smsItem.smsId].status = "PENDING"

\* positions of a cycle between the shift and the finally block
CyclePositions ==
  {"setPending", "publishing", "backoff", "failUpdate", "catchUpdate", "delay",
   "requeueWait"}

\* C38: every publish call being answered, a cycle that has set the flag
\* clears it again from wherever it stands: waiting for the PENDING update,
\* for a publish, in a backoff, writing FAILED after the last attempt, in
\* the catch block, in the delay after the send, or in the wait of the
\* not-connected branch.
C38_FlagClearedWhenPublishesResolve ==
  \A p \in CyclePositions :
    (isProcessingQueue /\ pc = p) ~> (~isProcessingQueue /\ pc = "idle")

\* the flag is clear again after a cycle whose three publishes all failed
C38_Witness ==
  /\ ~isProcessingQueue /\ pc = "idle"
  /\ \E id \in LinkIds \cap RecordIds :
       /\ records[id].status = "FAILED"
       /\ records[id].errorMsg = "Failed to send to Arduino after retries"

\* queueStatus.queueSize - queuedCount of the bulk response, queuedCount
\* being the number of results with status QUEUED
BulkQueuePosition(stat, res) ==
  stat.queueSize - Cardinality({k \in 1..Len(res) : res[k].status = "QUEUED"})

\* C39: the queuePosition of a bulk response is never negative.
C39_QueuePositionNotNegative ==
  resp.op = "bulk" /\ resp.code = 200 => BulkQueuePosition(qstat, results) >= 0

====
